---- MODULE Spec2Model ----
(***************************************************************************)
(* Model of the two dataset converters of jams-data:                       *)
(*                                                                         *)
(*   parsers/msd_tagtraum_cd_parser.py  (tagtraum genre votes -> JAMS)     *)
(*   parsers/isophonics_parser.py       (Isophonics .lab files -> JAMS)    *)
(*                                                                         *)
(* Three specifications share the module:                                  *)
(*   SpecLoad  load_tagtraum_dataset, one step per line of the vote file   *)
(*   SpecTag   the tagtraum process(): load, join, infer variant, emit     *)
(*   SpecIso   the Isophonics process(): one step per file, then saving    *)
(*                                                                         *)
(* Strings that the code slices, strips or counts are sequences of         *)
(* one-character strings; strings it only compares are TLA+ strings.       *)
(* A raised Python exception that nothing catches ends the run: the        *)
(* program counter becomes "crashed" and the error is recorded.            *)
(***************************************************************************)
EXTENDS Integers, Sequences, FiniteSets, TLC

VARIABLES
    \* ---- tagtraum converter ----
    tag_pc,                 \* "load" | "meta" | "setup" | "emit" | "done" | "crashed"
    tagtraum_values,        \* dict track_id -> list of 1 or 2 genres
    genres,                 \* set of genres seen by load_tagtraum_dataset
    has_minority_genres,    \* flag of load_tagtraum_dataset
    line_kind,              \* history: what the last line read was
    overwrote,              \* history: some line replaced an earlier vote list
    unique_tracks_values,   \* dict track_id -> <<artist, title>>
    variant,                \* the per-run values of process(), lines 121-144
    todo,                   \* keys of tagtraum_values not yet iterated
    tag_saved,              \* out_file -> the jam saved there
    tag_err,                \* the uncaught exception, "" when none
    \* ---- Isophonics converter ----
    iso_pc,                 \* "files" | "saving" | "done" | "crashed"
    all_jams,               \* dict title -> jam
    output_paths,           \* dict title -> output path
    lab_file,               \* the file of the current loop iteration
    lab_rows,               \* history: the rows import_lab read from that file
    traced,                 \* whether lab_rows is recorded
    nfiles,                 \* files taken from all_labs so far
    nevents,                \* events imported so far
    to_save,                \* titles not yet saved
    iso_saved,              \* out_file -> the jam saved there
    iso_err                 \* the uncaught exception, "" when none

tag_vars == <<tag_pc, tagtraum_values, genres, has_minority_genres, line_kind,
              overwrote, unique_tracks_values, variant, todo, tag_saved, tag_err>>
iso_vars == <<iso_pc, all_jams, output_paths, lab_file, lab_rows, traced, nfiles, nevents,
              to_save, iso_saved, iso_err>>
vars == <<tag_vars, iso_vars>>

(***************************************************************************)
(* Bounds of the model.                                                    *)
(***************************************************************************)
MaxFiller == 14     \* leading lines of a vote file that each name a new genre
MaxTail == 2        \* further lines of a vote file
MaxIdLines == 2     \* lines of the unique-tracks file
MaxFiles == 2       \* files found under in_dir
MaxEvents == 3      \* events imported in one run

(***************************************************************************)
(* Generic helpers.                                                        *)
(***************************************************************************)
EmptyDict == [x \in {} |-> {}]

DictSet(d, k, v) == [x \in (DOMAIN d) \cup {k} |-> IF x = k THEN v ELSE d[x]]

RECURSIVE SeqsUpTo(_, _)
SeqsUpTo(S, n) ==
    IF n = 0 THEN {<<>>}
    ELSE LET shorter == SeqsUpTo(S, n - 1)
         IN  shorter \cup {Append(s, x) : s \in {t \in shorter : Len(t) = n - 1}, x \in S}

(***************************************************************************)
(* Python string operations on character sequences.                        *)
(***************************************************************************)
\* s[a:b] for 0 <= a <= b, clipped to the string as Python clips it
Slice(s, a, b) ==
    LET hi == IF b < Len(s) THEN b ELSE Len(s)
    IN  IF a >= hi THEN <<>> ELSE SubSeq(s, a + 1, hi)

RECURSIVE LStrip(_)
LStrip(s) == IF s # <<>> /\ Head(s) = " " THEN LStrip(Tail(s)) ELSE s

RECURSIVE RStrip(_)
RStrip(s) ==
    IF s # <<>> /\ s[Len(s)] = " " THEN RStrip(SubSeq(s, 1, Len(s) - 1)) ELSE s

\* str.strip()
Strip(s) == RStrip(LStrip(s))

(***************************************************************************)
(* Exact arithmetic for the confidences: a value is <<numerator,           *)
(* denominator>> in lowest terms.                                          *)
(***************************************************************************)
RECURSIVE Gcd(_, _)
Gcd(a, b) == IF b = 0 THEN a ELSE Gcd(b, a % b)

Frac(n, d) == LET g == Gcd(n, d) IN <<n \div g, d \div g>>

FracSub(x, y) == Frac(x[1] * y[2] - y[1] * x[2], x[2] * y[2])

FracAdd(x, y) == Frac(x[1] * y[2] + y[1] * x[2], x[2] * y[2])

One == Frac(1, 1)

(***************************************************************************)
(* tagtraum converter: inputs.                                             *)
(***************************************************************************)
TRABC == <<"T", "R", "A", "B", "C">>
TRXYZ == <<"T", "R", "X", "Y", "Z">>
TRQQQ == <<"T", "R", "Q", "Q", "Q">>

\* the track ids that vote lines name
TrackIds == {TRABC, TRXYZ}

Rock == <<"R", "o", "c", "k">>
Pop == <<"P", "o", "p">>
\* a third field written with a blank after the tab
PopBlank == <<" ", "P", "o", "p">>

\* the i-th filler genre: a name of i letters, distinct for distinct i
FillerGenre(i) == [j \in 1..i |-> "x"]

\* A line of the vote file: whether it starts with '#', and the result of
\* line.strip().split('\t').
VoteLine(hash, toks) == [hash |-> hash, tokens |-> toks]

LinePool ==
    {VoteLine(TRUE, <<TRABC, Rock>>)}
    \cup {VoteLine(FALSE, <<t>>) : t \in TrackIds}
    \cup {VoteLine(FALSE, <<TRABC, Rock, Pop, Rock>>)}
    \cup {VoteLine(FALSE, <<t, g>>) : t \in TrackIds, g \in {Rock, Pop}}
    \cup {VoteLine(FALSE, <<t, p[1], p[2]>>) :
            t \in TrackIds, p \in {<<Rock, Pop>>, <<Pop, Rock>>, <<Rock, PopBlank>>}}

\* n lines, each a single vote of TRABC for a genre no other line names
Filler(n) == [i \in 1..n |-> VoteLine(FALSE, <<TRABC, FillerGenre(i)>>)]

VoteFiles == {Filler(n) \o tail : n \in 0..MaxFiller, tail \in SeqsUpTo(LinePool, MaxTail)}

\* A line of the unique-tracks file: the result of line.strip().split('<SEP>').
IdLinePool ==
    {<<t, "SOID", "Artist X", "Song Y">> : t \in TrackIds \cup {TRQQQ}}
    \cup {<<TRABC, "SOID", "Artist X">>}

IdFiles == SeqsUpTo(IdLinePool, MaxIdLines)

(***************************************************************************)
(* load_tagtraum_dataset                                                   *)
(***************************************************************************)
LoadStart == [values |-> EmptyDict, genres |-> {}, has_minority |-> FALSE]

\* a deliberately wrong variant, to show the property below is sensitive: a three-field line does not raise the flag
LineStepNoFlag(st, line) ==
    IF line.hash THEN st
    ELSE IF Len(line.tokens) = 2 THEN
        [values |-> DictSet(st.values, line.tokens[1], <<line.tokens[2]>>),
         genres |-> st.genres \cup {line.tokens[2]},
         has_minority |-> st.has_minority]
    ELSE IF Len(line.tokens) = 3 THEN
        [values |-> DictSet(st.values, line.tokens[1],
                            <<line.tokens[2], Strip(line.tokens[3])>>),
         genres |-> st.genres \cup {line.tokens[2], Strip(line.tokens[3])},
         has_minority |-> st.has_minority]
    ELSE st

\* the body of the loop over the lines, lines 70-87
LineStep(st, line) ==
    IF line.hash THEN st
    ELSE IF Len(line.tokens) = 2 THEN
        [values |-> DictSet(st.values, line.tokens[1], <<line.tokens[2]>>),
         genres |-> st.genres \cup {line.tokens[2]},
         has_minority |-> st.has_minority]
    ELSE IF Len(line.tokens) = 3 THEN
        [values |-> DictSet(st.values, line.tokens[1],
                            <<line.tokens[2], Strip(line.tokens[3])>>),
         genres |-> st.genres \cup {line.tokens[2], Strip(line.tokens[3])},
         has_minority |-> TRUE]
    ELSE st

RECURSIVE LoadFrom(_, _)
LoadFrom(st, lines) ==
    IF lines = <<>> THEN st ELSE LoadFrom(LineStep(st, Head(lines)), Tail(lines))

load_tagtraum_dataset(lines) == LoadFrom(LoadStart, lines)

LineKind(line) ==
    IF line.hash THEN "comment"
    ELSE IF Len(line.tokens) \in {2, 3} THEN "vote"
    ELSE "malformed"

(***************************************************************************)
(* load_msd_metadata                                                       *)
(***************************************************************************)
RECURSIVE MsdFrom(_, _, _)
MsdFrom(acc, lines, values) ==
    IF lines = <<>> THEN acc
    ELSE LET toks == Head(lines)
             next == IF Len(toks) = 4 /\ toks[1] \in DOMAIN values
                     THEN DictSet(acc, toks[1], <<toks[3], toks[4]>>)
                     ELSE acc
         IN  MsdFrom(next, Tail(lines), values)

load_msd_metadata(lines, values) == MsdFrom(EmptyDict, lines, values)

(***************************************************************************)
(* process() of the tagtraum converter                                     *)
(***************************************************************************)
Cd1GenreCount == 13

\* a deliberately wrong variant, to show the property below is sensitive: cd1 is recognised from a different genre count
SetupOffByOne(gs, minority) ==
    LET is_cd1 == Cardinality(gs) = Cd1GenreCount + 1
        is_cd2 == ~is_cd1 /\ minority
        majority_confidence == IF is_cd1 THEN Frac(2, 3) ELSE Frac(1, 2)
    IN  [is_cd1 |-> is_cd1,
         is_cd2 |-> is_cd2,
         namespace |-> IF is_cd1 THEN "tag_msd_tagtraum_cd1" ELSE "tag_msd_tagtraum_cd2",
         majority_confidence |-> majority_confidence,
         minority_confidence |-> FracSub(One, majority_confidence),
         annotation_metadata |->
            [curator |-> [name |-> "Hendrik Schreiber", email |-> "hs@tagtraum.com"],
             data_source |-> IF is_cd1 THEN "Top-MAGD, beaTunes, Last.fm"
                             ELSE "beaTunes, Last.fm",
             version |-> 1,
             corpus |-> IF is_cd1 THEN "msd tagtraum cd1"
                        ELSE IF is_cd2 THEN "msd tagtraum cd2" ELSE "msd tagtraum cd2c",
             annotator |-> IF is_cd1
                           THEN "All Music Guide, Last.fm users, beaTunes users"
                           ELSE "Last.fm users, beaTunes users",
             validation |-> "Multiple data sources. Majority voting."]]

\* lines 121-144: the values computed once, before the loop over the tracks
Setup(gs, minority) ==
    LET is_cd1 == Cardinality(gs) = Cd1GenreCount
        is_cd2 == ~is_cd1 /\ minority
        majority_confidence == IF is_cd1 THEN Frac(2, 3) ELSE Frac(1, 2)
    IN  [is_cd1 |-> is_cd1,
         is_cd2 |-> is_cd2,
         namespace |-> IF is_cd1 THEN "tag_msd_tagtraum_cd1" ELSE "tag_msd_tagtraum_cd2",
         majority_confidence |-> majority_confidence,
         minority_confidence |-> FracSub(One, majority_confidence),
         annotation_metadata |->
            [curator |-> [name |-> "Hendrik Schreiber", email |-> "hs@tagtraum.com"],
             data_source |-> IF is_cd1 THEN "Top-MAGD, beaTunes, Last.fm"
                             ELSE "beaTunes, Last.fm",
             version |-> 1,
             corpus |-> IF is_cd1 THEN "msd tagtraum cd1"
                        ELSE IF is_cd2 THEN "msd tagtraum cd2" ELSE "msd tagtraum cd2c",
             annotator |-> IF is_cd1
                           THEN "All Music Guide, Last.fm users, beaTunes users"
                           ELSE "Last.fm users, beaTunes users",
             validation |-> "Multiple data sources. Majority voting."]]

Observation(value, confidence) ==
    [time |-> 0, duration |-> 0, value |-> value, confidence |-> confidence]

\* a deliberately wrong variant, to show the property below is sensitive: the minority vote gets the majority's confidence
TrackEventsSameConfidence(votes, v) ==
    LET confidence == IF Len(votes) = 1 THEN One ELSE v.majority_confidence
    IN  <<Observation(votes[1], confidence)>>
        \o (IF Len(votes) = 2
            THEN <<Observation(votes[2], v.majority_confidence)>>
            ELSE <<>>)

\* lines 160-168: the observations of one track
TrackEvents(votes, v) ==
    LET confidence == IF Len(votes) = 1 THEN One ELSE v.majority_confidence
    IN  <<Observation(votes[1], confidence)>>
        \o (IF Len(votes) = 2
            THEN <<Observation(votes[2], v.minority_confidence)>>
            ELSE <<>>)

\* lines 152-173: the jam of one track
TrackJam(track_id, identity, votes, v) ==
    [file_metadata |-> [artist |-> identity[1], title |-> identity[2], duration |-> 0,
                        identifiers |-> [msd_id |-> track_id]],
     annotations |-> <<[namespace |-> v.namespace,
                        data |-> TrackEvents(votes, v),
                        annotation_metadata |-> v.annotation_metadata]>>]

\* line 176: out_dir/<3rd char>/<4th char>/<5th char>/<track_id>.jams
OutFile(track_id) ==
    <<"out_dir", Slice(track_id, 2, 3), Slice(track_id, 3, 4), Slice(track_id, 4, 5),
      track_id \o <<".jams">>>>

NoVariant == [unset |-> TRUE]

TagInit ==
    /\ tag_pc = "load"
    /\ tagtraum_values = EmptyDict
    /\ genres = {}
    /\ has_minority_genres = FALSE
    /\ line_kind = "none"
    /\ overwrote = FALSE
    /\ unique_tracks_values = EmptyDict
    /\ variant = NoVariant
    /\ todo = {}
    /\ tag_saved = EmptyDict
    /\ tag_err = ""

\* one iteration of the loop of load_tagtraum_dataset
ReadLine(line) ==
    /\ UNCHANGED iso_vars
    /\ tag_pc = "load"
    /\ LET st == LineStep([values |-> tagtraum_values, genres |-> genres,
                           has_minority |-> has_minority_genres], line)
       IN  /\ tagtraum_values' = st.values
           /\ genres' = st.genres
           /\ has_minority_genres' = st.has_minority
    /\ line_kind' = LineKind(line)
    /\ overwrote' = (overwrote \/ (LineKind(line) = "vote"
                                   /\ line.tokens[1] \in DOMAIN tagtraum_values))
    /\ UNCHANGED <<tag_pc, unique_tracks_values, variant, todo, tag_saved, tag_err>>

\* line 118: the whole vote file is read
Load ==
    /\ UNCHANGED iso_vars
    /\ tag_pc = "load"
    /\ \E lines \in VoteFiles :
          LET st == load_tagtraum_dataset(lines)
          IN  /\ tagtraum_values' = st.values
              /\ genres' = st.genres
              /\ has_minority_genres' = st.has_minority
    /\ tag_pc' = "meta"
    /\ UNCHANGED <<line_kind, overwrote, unique_tracks_values, variant, todo,
                   tag_saved, tag_err>>

\* line 119: the unique-tracks file is read and joined
LoadMeta ==
    /\ UNCHANGED iso_vars
    /\ tag_pc = "meta"
    /\ \E lines \in IdFiles :
          unique_tracks_values' = load_msd_metadata(lines, tagtraum_values)
    /\ tag_pc' = "setup"
    /\ UNCHANGED <<tagtraum_values, genres, has_minority_genres, line_kind, overwrote,
                   variant, todo, tag_saved, tag_err>>

\* lines 121-146
InferVariant ==
    /\ UNCHANGED iso_vars
    /\ tag_pc = "setup"
    /\ variant' = Setup(genres, has_minority_genres)
    /\ todo' = DOMAIN tagtraum_values
    /\ tag_pc' = "emit"
    /\ UNCHANGED <<tagtraum_values, genres, has_minority_genres, line_kind, overwrote,
                   unique_tracks_values, tag_saved, tag_err>>

\* One iteration of the loop of line 148; a dict is iterated in no given
\* order.  The lookup of line 150 raises KeyError for a track without
\* identity, and nothing catches it.
Emit(track_id) ==
    /\ UNCHANGED iso_vars
    /\ tag_pc = "emit"
    /\ track_id \in todo
    /\ IF track_id \in DOMAIN unique_tracks_values
       THEN /\ tag_saved' = DictSet(tag_saved, OutFile(track_id),
                                    TrackJam(track_id, unique_tracks_values[track_id],
                                             tagtraum_values[track_id], variant))
            /\ todo' = todo \ {track_id}
            /\ UNCHANGED <<tag_pc, tag_err>>
       ELSE /\ tag_pc' = "crashed"
            /\ tag_err' = "KeyError"
            /\ UNCHANGED <<todo, tag_saved>>
    /\ UNCHANGED <<tagtraum_values, genres, has_minority_genres, line_kind, overwrote,
                   unique_tracks_values, variant>>

\* the loop of line 148 is exhausted
Finish ==
    /\ UNCHANGED iso_vars
    /\ tag_pc = "emit"
    /\ todo = {}
    /\ tag_pc' = "done"
    /\ UNCHANGED <<tagtraum_values, genres, has_minority_genres, line_kind, overwrote,
                   unique_tracks_values, variant, todo, tag_saved, tag_err>>

(***************************************************************************)
(* Isophonics converter: tables.                                           *)
(***************************************************************************)
ISO_ATTRS == [beat |-> "beat", chord |-> "chordlab", key |-> "keylab", segment |-> "seglab"]

NS_DICT == [beat |-> "beat", chord |-> "chord_harte", key |-> "key_mode",
            segment |-> "segment_isophonics"]

CHORDS_DICT ==
    ("E:4" :> "E:sus4") @@ ("Db:6" :> "Db:maj6") @@ ("F#min7" :> "F#:min7")
    @@ ("B:7sus" :> "B:maj7") @@ ("Db:6/2" :> "Db:maj6/2") @@ ("Ab:6" :> "Ab:maj6")
    @@ ("F:6" :> "F:maj6") @@ ("D:6" :> "D:maj6") @@ ("G:6" :> "G:maj6")
    @@ ("A:6" :> "A:maj6") @@ ("E:sus" :> "E") @@ ("E:7sus" :> "E:maj7")

KEYS_DICT == ("C#:modal" :> "C#")

\* dict.get(k, k)
Get(d, k) == IF k \in DOMAIN d THEN d[k] ELSE k

\* str.lower() on the labels of the model
Lower(s) ==
    CASE s = "Silence" -> "silence"
      [] s = "SILENCE" -> "silence"
      [] s = "C" -> "c"
      [] s = "C#" -> "c#"
      [] s = "C#:modal" -> "c#:modal"
      [] OTHER -> s

\* float(value): the text of the float, or "ValueError"
Float(s) ==
    CASE s = "1" -> "1.0"
      [] s = "2" -> "2.0"
      [] OTHER -> "ValueError"

(***************************************************************************)
(* Isophonics converter: inputs.                                           *)
(***************************************************************************)
Stems == {"song_a", "song_b"}
Exts == {".lab", ".txt"}
CategoryDirs == {"beat", "chordlab", "keylab", "seglab", "notes"}

\* The directories between in_dir and the file: none (a file lying in in_dir
\* itself), or attribute/Artist.
DirChoices == {<<>>} \cup {<<d, "Artist">> : d \in CategoryDirs}

LabFiles == [dirs : DirChoices, stem : Stems, ext : Exts]

NoFile == [dirs |-> <<>>, stem |-> "", ext |-> ""]

Durations == {-1, 0, 1}

\* the labels a file under each attribute directory may hold
ValuesOf(dir) ==
    CASE dir = "beat" -> {"1", "New Point"}
      [] dir = "chordlab" -> {"E:4", "C"}
      [] dir = "keylab" -> {"C#:modal", "Silence"}
      [] OTHER -> {"verse"}

\* the (duration, value) pairs of the rows of a file; a beat file has two
\* columns and its rows get duration 0
RowChoices(dir) ==
    IF dir = "beat" THEN {<<0, v>> : v \in ValuesOf(dir)}
    ELSE {<<d, v>> : d \in Durations, v \in ValuesOf(dir)}

\* jams.util.import_lab: the rows get the labels 0, 1, 2, ... of a new
\* frame; the model's rows start one time unit apart
ImportLab(rows) ==
    [p \in 1..Len(rows) |->
        [idx |-> p - 1, time |-> p - 1, duration |-> rows[p][1], value |-> rows[p][2]]]

(***************************************************************************)
(* Isophonics converter: the frame operations and the fix-ups.             *)
(***************************************************************************)
Labels(data) == {data[p].idx : p \in DOMAIN data}

\* DataFrame.drop(idxs): by label; a label that is not in the index raises
DropRaises(data, idxs) == ~(idxs \subseteq Labels(data))

KeepRow(row, idxs) == row.idx \notin idxs

Drop(data, idxs) == SelectSeq(data, LAMBDA row : KeepRow(row, idxs))

\* annot.data.loc[i, "value"] = v for every i of enumerate(): row i of a
\* frame whose labels are 0..n-1, as import_lab leaves them
MapValues(data, d) == [p \in DOMAIN data |-> [data[p] EXCEPT !.value = Get(d, @)]]

fix_chord_labels(data) == MapValues(data, CHORDS_DICT)

fix_key_labels(data) == MapValues(data, KEYS_DICT)

fix_beats_values(data) ==
    [p \in DOMAIN data |->
        [data[p] EXCEPT !.value = IF Float(@) = "ValueError" THEN "nan" ELSE Float(@)]]

\* a deliberately wrong variant, to show the property below is sensitive: only negative durations are collected
EmptyRangesNegativeOnly(data) == {p - 1 : p \in {q \in DOMAIN data : data[q].duration < 0}}

\* lines 109-112: the positions (from 0) of the rows with duration <= 0
EmptyRanges(data) == {p - 1 : p \in {q \in DOMAIN data : data[q].duration <= 0}}

\* lines 118-121: the positions (from 0) of the rows labelled silence
Silences(data) == {p - 1 : p \in {q \in DOMAIN data : Lower(data[q].value) = "silence"}}

\* get_duration_from_annot: iloc[-1] of an empty frame raises IndexError
DurationRaises(data) == data = <<>>

get_duration_from_annot(data) == data[Len(data)].time + data[Len(data)].duration

(***************************************************************************)
(* process() of the Isophonics converter                                   *)
(***************************************************************************)
None == <<>>

Some(x) == <<x>>

\* lab_file.replace(in_dir, '').strip('/').split('/')
Parts(f) == [i \in 1..Len(f.dirs) |-> <<f.dirs[i]>>] \o <<<<f.stem, f.ext>>>>

\* whether the text kw occurs in the path: the attribute directories are
\* the only parts of the model's paths that hold a keyword
Contains(f, kw) == \E i \in DOMAIN f.dirs : f.dirs[i] = kw

\* the if/elif chain of lines 144-164
Category(f) ==
    IF Contains(f, ISO_ATTRS.beat) THEN "beat"
    ELSE IF Contains(f, ISO_ATTRS.chord) THEN "chord"
    ELSE IF Contains(f, ISO_ATTRS.key) THEN "key"
    ELSE IF Contains(f, ISO_ATTRS.segment) THEN "segment"
    ELSE "none"

\* str.replace(".lab", ".jams") on every part of a path
ReplaceLab(path) ==
    [i \in DOMAIN path |->
        [j \in DOMAIN path[i] |-> IF path[i][j] = ".lab" THEN ".jams" ELSE path[i][j]]]

\* lines 139-140
OutputPath(parts) == ReplaceLab(<<<<"out_dir">>>> \o Tail(parts))

\* jams.JAMS()
NewJam == [file_metadata |-> [artist |-> <<"">>, title |-> "", duration |-> None],
           annotations |-> <<>>]

DefaultMeta == [curator |-> [name |-> "", email |-> ""], version |-> "",
                corpus |-> "", annotator |-> "None"]

\* lines 171-176
AnnMeta == [curator |-> [name |-> "Matthias Mauch", email |-> "m.mauch@qmul.ac.uk"],
            version |-> "1.0", corpus |-> "Isophonics", annotator |-> "None"]

Annotation(ns, data) == [namespace |-> ns, data |-> data, annotation_metadata |-> DefaultMeta]

\* fill_file_metadata
fill_file_metadata(jam, artist, title) ==
    [jam EXCEPT !.file_metadata = [artist |-> artist, title |-> title, duration |-> None]]

WithAnnotation(jam, annot) == [jam EXCEPT !.annotations = Append(@, annot)]

WithDuration(jam, dur) == [jam EXCEPT !.file_metadata.duration = Some(dur)]

WithLastMeta(jam) ==
    [jam EXCEPT !.annotations[Len(jam.annotations)].annotation_metadata = AnnMeta]

\* The result of lines 143-177 for one file on its jam: the jam as the
\* statements executed leave it, and the exception that ended them ("" when
\* the iteration completed).
Outcome(jam, err) == [jam |-> jam, err |-> err]

BeatBranch(jam, rows) ==
    Outcome(WithAnnotation(jam, Annotation(NS_DICT.beat, fix_beats_values(ImportLab(rows)))), "")

ChordBranch(jam, rows) ==
    LET labelled == fix_chord_labels(ImportLab(rows))
        ranged == Drop(labelled, EmptyRanges(labelled))
    IN  IF DropRaises(labelled, EmptyRanges(labelled))
        THEN Outcome(WithAnnotation(jam, Annotation(NS_DICT.chord, labelled)), "KeyError: drop")
        ELSE IF DurationRaises(ranged)
        THEN Outcome(WithAnnotation(jam, Annotation(NS_DICT.chord, ranged)), "IndexError: iloc")
        ELSE Outcome(WithDuration(WithAnnotation(jam, Annotation(NS_DICT.chord, ranged)),
                                  get_duration_from_annot(ranged)), "")

KeyBranch(jam, rows) ==
    LET labelled == fix_key_labels(ImportLab(rows))
        ranged == Drop(labelled, EmptyRanges(labelled))
    IN  IF DropRaises(labelled, EmptyRanges(labelled))
        THEN Outcome(WithAnnotation(jam, Annotation(NS_DICT.key, labelled)), "KeyError: drop")
        ELSE IF DropRaises(ranged, Silences(ranged))
        THEN Outcome(WithAnnotation(jam, Annotation(NS_DICT.key, ranged)), "KeyError: drop")
        ELSE Outcome(WithAnnotation(jam, Annotation(NS_DICT.key,
                                                    Drop(ranged, Silences(ranged)))), "")

SegmentBranch(jam, rows) ==
    LET imported == ImportLab(rows)
        ranged == Drop(imported, EmptyRanges(imported))
    IN  IF DropRaises(imported, EmptyRanges(imported))
        THEN Outcome(WithAnnotation(jam, Annotation(NS_DICT.segment, imported)), "KeyError: drop")
        ELSE IF DurationRaises(ranged)
        THEN Outcome(WithAnnotation(jam, Annotation(NS_DICT.segment, ranged)), "IndexError: iloc")
        ELSE Outcome(WithDuration(WithAnnotation(jam, Annotation(NS_DICT.segment, ranged)),
                                  get_duration_from_annot(ranged)), "")

\* lines 143-177
Annotate(jam, f, rows) ==
    LET branch == CASE Category(f) = "beat" -> BeatBranch(jam, rows)
                    [] Category(f) = "chord" -> ChordBranch(jam, rows)
                    [] Category(f) = "key" -> KeyBranch(jam, rows)
                    [] Category(f) = "segment" -> SegmentBranch(jam, rows)
                    [] OTHER -> Outcome(jam, "")
    IN  IF branch.err # "" THEN branch
        ELSE IF branch.jam.annotations = <<>>
        THEN Outcome(branch.jam, "IndexError: annotations")
        ELSE Outcome(WithLastMeta(branch.jam), "")

\* the state before line 133; tr tells whether the history is recorded
IsoStart(tr) ==
    /\ iso_pc = "files"
    /\ all_jams = EmptyDict
    /\ output_paths = EmptyDict
    /\ lab_file = NoFile
    /\ lab_rows = <<>>
    /\ traced = tr
    /\ nfiles = 0
    /\ nevents = 0
    /\ to_save = {}
    /\ iso_saved = EmptyDict
    /\ iso_err = ""

\* the rows a file of the model may hold
RowsOf(f, budget) ==
    IF Category(f) = "none" THEN {<<>>}
    ELSE SeqsUpTo(RowChoices(f.dirs[1]), budget) \ {<<>>}

\* The files come in the order of all_labs: the .lab files, then the .txt
\* files (lines 130-131).  The titles are named in the order in which they
\* first occur.  lab_rows is recorded by the traced specification only.
NextFile(f, rows) ==
    /\ iso_pc = "files"
    /\ nfiles < MaxFiles
    /\ lab_file.ext = ".txt" => f.ext = ".txt"
    /\ f.stem = "song_b" => "song_a" \in DOMAIN all_jams
    /\ lab_file' = f
    /\ lab_rows' = IF traced THEN rows ELSE <<>>
    /\ nfiles' = nfiles + 1
    /\ UNCHANGED <<traced, to_save, iso_saved>>
    /\ UNCHANGED tag_vars

\* One iteration of the loop of line 133 whose file is the first of its
\* title and lies in in_dir itself: parts[1] of line 138 raises IndexError
\* after line 136 has stored the new jam.
ProcessShallowFile ==
    /\ iso_pc = "files"
    /\ \E f \in LabFiles :
          /\ NextFile(f, <<>>)
          /\ f.stem \notin DOMAIN all_jams
          /\ Len(Parts(f)) < 2
          /\ all_jams' = DictSet(all_jams, f.stem, NewJam)
    /\ iso_pc' = "crashed"
    /\ iso_err' = "IndexError: parts"
    /\ UNCHANGED <<output_paths, nevents>>

\* One iteration of the loop of line 133 that gets past line 141.  A file
\* of an attribute directory has rows; any other file's rows are never read.
ProcessFile ==
    /\ iso_pc = "files"
    /\ \E f \in LabFiles : \E rows \in RowsOf(f, MaxEvents - nevents) :
          /\ NextFile(f, rows)
          /\ f.stem \in DOMAIN all_jams \/ Len(Parts(f)) >= 2
          /\ LET first == f.stem \notin DOMAIN all_jams
                 jam == IF first THEN fill_file_metadata(NewJam, Parts(f)[2], f.stem)
                        ELSE all_jams[f.stem]
                 out == Annotate(jam, f, rows)
             IN  /\ all_jams' = DictSet(all_jams, f.stem, out.jam)
                 /\ output_paths' = IF first
                                    THEN DictSet(output_paths, f.stem, OutputPath(Parts(f)))
                                    ELSE output_paths
                 /\ iso_err' = out.err
                 /\ iso_pc' = IF out.err = "" THEN "files" ELSE "crashed"
          /\ nevents' = nevents + Len(rows)

\* line 179: all_labs is exhausted
StartSaving ==
    /\ UNCHANGED tag_vars
    /\ iso_pc = "files"
    /\ iso_pc' = "saving"
    /\ to_save' = DOMAIN all_jams
    /\ UNCHANGED <<all_jams, output_paths, lab_file, lab_rows, traced, nfiles,
                   nevents, iso_saved, iso_err>>

\* one iteration of the loop of line 180; a dict is iterated in no given order
Save(title) ==
    /\ UNCHANGED tag_vars
    /\ iso_pc = "saving"
    /\ title \in to_save
    /\ iso_saved' = DictSet(iso_saved, output_paths[title], all_jams[title])
    /\ to_save' = to_save \ {title}
    /\ UNCHANGED <<iso_pc, all_jams, output_paths, lab_file, lab_rows, traced, nfiles,
                   nevents, iso_err>>

\* the loop of line 180 is exhausted
FinishSaving ==
    /\ UNCHANGED tag_vars
    /\ iso_pc = "saving"
    /\ to_save = {}
    /\ iso_pc' = "done"
    /\ UNCHANGED <<all_jams, output_paths, lab_file, lab_rows, traced, nfiles,
                   nevents, to_save,
                   iso_saved, iso_err>>

(***************************************************************************)
(* The specifications.                                                     *)
(***************************************************************************)
Init == TagInit /\ IsoStart(FALSE)

InitTraced == TagInit /\ IsoStart(TRUE)

NextLoad == \E line \in LinePool : ReadLine(line)

SpecLoad == Init /\ [][NextLoad]_vars

NextTag ==
    \/ Load
    \/ LoadMeta
    \/ InferVariant
    \/ \E track_id \in TrackIds : Emit(track_id)
    \/ Finish

SpecTag == Init /\ [][NextTag]_vars

NextIso ==
    \/ ProcessShallowFile
    \/ ProcessFile
    \/ StartSaving
    \/ \E title \in Stems : Save(title)
    \/ FinishSaving

SpecIso == Init /\ [][NextIso]_vars

\* the same program, with the rows of the current file kept as history
SpecIsoTraced == InitTraced /\ [][NextIso]_vars

(***************************************************************************)
(* The claims.                                                             *)
(***************************************************************************)

\* C1: when the run of the tagtraum process() has ended, every track id of
\* the vote records that has an identity entry has been saved, also when
\* some other track id has none.
C1_OtherTracksEmitted ==
    tag_pc \in {"done", "crashed"} =>
        \A t \in DOMAIN tagtraum_values :
            t \in DOMAIN unique_tracks_values => OutFile(t) \in DOMAIN tag_saved

\* C2: after a completed key pass (fix_key_labels, fix_ranges, fix_silence)
\* no retained row of the key annotation is labelled silence in any letter
\* case, and every imported row of positive duration that is not labelled
\* silence is retained.
C2_KeyPassOriginal ==
    (nfiles > 0 /\ Category(lab_file) = "key" /\ iso_err = "") =>
        LET jam == all_jams[lab_file.stem]
            data == jam.annotations[Len(jam.annotations)].data
        IN  /\ \A p \in DOMAIN data : Lower(data[p].value) # "silence"
            /\ \A q \in DOMAIN lab_rows :
                  (lab_rows[q][1] > 0 /\ Lower(Get(KEYS_DICT, lab_rows[q][2])) # "silence")
                      => \E p \in DOMAIN data : data[p].idx = q - 1

\* C3: every row of a chord, key or segment annotation of a jam that is
\* saved, or that a run which has not failed holds, has duration > 0.
C3_PositiveDurations ==
    LET RangeNamespaces == {NS_DICT.chord, NS_DICT.key, NS_DICT.segment}
        Positive(jam) ==
            \A i \in DOMAIN jam.annotations :
                jam.annotations[i].namespace \in RangeNamespaces =>
                    \A p \in DOMAIN jam.annotations[i].data :
                        jam.annotations[i].data[p].duration > 0
    IN  /\ \A path \in DOMAIN iso_saved : Positive(iso_saved[path])
        /\ iso_pc # "crashed" => \A title \in DOMAIN all_jams : Positive(all_jams[title])

\* C3 witness: a saved chord annotation whose first row is not the first
\* imported one, so that fix_ranges has dropped a row, and which kept a row.
C3_Witness ==
    \E path \in DOMAIN iso_saved :
        \E i \in DOMAIN iso_saved[path].annotations :
            LET a == iso_saved[path].annotations[i]
            IN  /\ a.namespace = NS_DICT.chord
                /\ a.data # <<>>
                /\ a.data[1].idx # 0

\* C4: after a chord or segment file, the duration of the track is time +
\* duration of the last retained row; when no row is retained the run goes
\* on, and the duration is not zero and, for a first annotation, unset.
C4_DurationOriginal ==
    (nfiles > 0 /\ Category(lab_file) \in {"chord", "segment"}) =>
        LET retained == SelectSeq(ImportLab(lab_rows), LAMBDA r : r.duration > 0)
            jam == all_jams[lab_file.stem]
            last == retained[Len(retained)]
        IN  /\ iso_pc # "crashed"
            /\ IF retained = <<>>
               THEN /\ jam.file_metadata.duration # Some(0)
                    /\ Len(jam.annotations) = 1 => jam.file_metadata.duration = None
               ELSE jam.file_metadata.duration = Some(last.time + last.duration)

\* C5: a saved single-vote track has one observation of confidence 1; a
\* saved two-vote track has two, majority then minority, of confidences
\* 2/3 and 1/3 under cd1 and 1/2 and 1/2 under cd2 and cd2c, which add up
\* to 1; every observation has time 0 and duration 0.
C5_Confidences ==
    \A path \in DOMAIN tag_saved :
        LET jam == tag_saved[path]
            votes == tagtraum_values[jam.file_metadata.identifiers.msd_id]
            data == jam.annotations[1].data
            corpus == jam.annotations[1].annotation_metadata.corpus
        IN  /\ Len(jam.annotations) = 1
            /\ corpus \in {"msd tagtraum cd1", "msd tagtraum cd2", "msd tagtraum cd2c"}
            /\ Len(data) = Len(votes)
            /\ \A i \in DOMAIN data :
                  data[i].value = votes[i] /\ data[i].time = 0 /\ data[i].duration = 0
            /\ Len(votes) = 1 => data[1].confidence = <<1, 1>>
            /\ Len(votes) = 2 =>
                  /\ corpus = "msd tagtraum cd1" =>
                        data[1].confidence = <<2, 3>> /\ data[2].confidence = <<1, 3>>
                  /\ corpus # "msd tagtraum cd1" =>
                        data[1].confidence = <<1, 2>> /\ data[2].confidence = <<1, 2>>
                  /\ data[1].confidence[1] * data[2].confidence[2]
                        + data[2].confidence[1] * data[1].confidence[2]
                     = data[1].confidence[2] * data[2].confidence[2]

\* C5 witness: a finished cd1 run that saved a single-vote track and a
\* two-vote track.
C5_Witness ==
    /\ tag_pc = "done"
    /\ \E p1, p2 \in DOMAIN tag_saved :
          /\ Len(tag_saved[p1].annotations[1].data) = 1
          /\ Len(tag_saved[p2].annotations[1].data) = 2
          /\ tag_saved[p2].annotations[1].annotation_metadata.corpus = "msd tagtraum cd1"

\* C6: once the variant is inferred it is the function of (number of
\* distinct genres, minority flag) that gives cd1 for 13 genres, else cd2
\* with the flag and cd2c without; nothing is saved before, and every saved
\* track carries the namespace, corpus, data source and annotator of it.
C6_VariantInference ==
    LET n == Cardinality(genres)
        corpus == IF n = 13 THEN "msd tagtraum cd1"
                  ELSE IF has_minority_genres THEN "msd tagtraum cd2"
                  ELSE "msd tagtraum cd2c"
        namespace == IF n = 13 THEN "tag_msd_tagtraum_cd1" ELSE "tag_msd_tagtraum_cd2"
        data_source == IF n = 13 THEN "Top-MAGD, beaTunes, Last.fm" ELSE "beaTunes, Last.fm"
        annotator == IF n = 13 THEN "All Music Guide, Last.fm users, beaTunes users"
                     ELSE "Last.fm users, beaTunes users"
    IN  /\ tag_pc \in {"load", "meta", "setup"} => tag_saved = EmptyDict
        /\ tag_pc \in {"emit", "done", "crashed"} =>
              /\ variant.namespace = namespace
              /\ variant.annotation_metadata.corpus = corpus
              /\ \A path \in DOMAIN tag_saved :
                    LET a == tag_saved[path].annotations[1]
                    IN  /\ a.namespace = namespace
                        /\ a.annotation_metadata.corpus = corpus
                        /\ a.annotation_metadata.data_source = data_source
                        /\ a.annotation_metadata.annotator = annotator

\* C6 witness: a finished run over 13 genres with minority votes that saved
\* both tracks as cd1.
C6_Witness ==
    /\ tag_pc = "done"
    /\ Cardinality(genres) = 13
    /\ has_minority_genres
    /\ Cardinality(DOMAIN tag_saved) = 2
    /\ \A path \in DOMAIN tag_saved :
          tag_saved[path].annotations[1].annotation_metadata.corpus = "msd tagtraum cd1"

\* C7: a step of the Isophonics loop on a file whose path holds no
\* category keyword (and has the segments the artist needs) does not end
\* the run, leaves every jam as it was and gives a new jam no annotation.
C7_UnmatchedOriginal ==
    [][(nfiles' = nfiles + 1 /\ Category(lab_file') = "none" /\ Len(Parts(lab_file')) >= 2)
        => /\ iso_pc' = "files"
           /\ \A t \in DOMAIN all_jams : all_jams'[t] = all_jams[t]
           /\ \A t \in DOMAIN all_jams' \ DOMAIN all_jams : all_jams'[t].annotations = <<>>]_vars

\* C8: a step of the Isophonics loop on a file whose path has fewer
\* segments than the artist needs skips that file only: the run goes on
\* and the jams and output paths are as before.
C8_ShallowOriginal ==
    [][(nfiles' = nfiles + 1 /\ Len(Parts(lab_file')) < 2)
        => /\ iso_pc' = "files"
           /\ all_jams' = all_jams
           /\ output_paths' = output_paths]_vars

\* C9: the output path of every title starts at the output root and ends
\* in <title>.jams, whatever the extension of the first file of the title;
\* a finished run has saved each title's jam once, at its output path.
C9_OutputPathOriginal ==
    /\ \A title \in DOMAIN output_paths :
          LET path == output_paths[title]
          IN  Head(path) = <<"out_dir">> /\ path[Len(path)] = <<title, ".jams">>
    /\ iso_pc = "done" =>
          /\ Cardinality(DOMAIN iso_saved) = Cardinality(DOMAIN all_jams)
          /\ \A title \in DOMAIN all_jams :
                /\ output_paths[title] \in DOMAIN iso_saved
                /\ iso_saved[output_paths[title]] = all_jams[title]

\* the genres that occur in the vote lists
GenresInVotes ==
    UNION {{tagtraum_values[t][i] : i \in DOMAIN tagtraum_values[t]} :
            t \in DOMAIN tagtraum_values}

\* some vote list has two entries
SomeTwoVotes == \E t \in DOMAIN tagtraum_values : Len(tagtraum_values[t]) = 2

\* C10 as stated: the genre set is the set of the genres in the vote lists,
\* and the flag is set exactly when some vote list has two entries.
C10_Original ==
    /\ genres = GenresInVotes
    /\ has_minority_genres <=> SomeTwoVotes

\* C10 as amended: the genre set contains the genres of the vote lists and
\* the flag is set when some vote list has two entries; both are exact as
\* long as no line replaced an earlier vote list; a comment line or a
\* malformed line changes none of the three results.
C10_Amended ==
    /\ [](/\ GenresInVotes \subseteq genres
          /\ SomeTwoVotes => has_minority_genres
          /\ ~overwrote => (genres = GenresInVotes /\ (has_minority_genres => SomeTwoVotes)))
    /\ [][line_kind' \in {"comment", "malformed"}
            => UNCHANGED <<tagtraum_values, genres, has_minority_genres>>]_vars

\* C10 witness: after a replacement and a malformed line, the genre set
\* holds a genre of no vote list and the flag is set with no two-vote list.
C10_Witness ==
    /\ overwrote
    /\ line_kind = "malformed"
    /\ genres # GenresInVotes
    /\ has_minority_genres
    /\ ~SomeTwoVotes
    /\ DOMAIN tagtraum_values = TrackIds

====
